---- MODULE Spec2Model ----
(***************************************************************************)
(* A model of font-classification-tool.py: the identifier resolver         *)
(* (get_gfn), the batch analyser (analyse_fonts), the range normaliser     *)
(* (map_to_int_range) and the metadata merge done by main.                 *)
(*                                                                         *)
(* Text is modelled as a sequence of one-character strings, so that        *)
(* substring tests, splitting, sorting and formatting are computed and     *)
(* not assumed.  A float is modelled as an integer numerator over the      *)
(* power of two Den; on the inputs used here the double arithmetic of the  *)
(* program is exact, so the rational computation is the program's.         *)
(***************************************************************************)
EXTENDS Integers, Sequences, FiniteSets, TLC

\* ------------------------------------------------------------------ bounds
\* longest list handed to map_to_int_range in NormSpec
MaxLen == 3
\* raw values range over -MaxNum..MaxNum (in units of 1/Den)
MaxNum == 4
\* number of binary fraction digits of a raw value
FracBits == 1

\* most *.ttf files listed on disk in GfnSpec
MaxListed == 2
\* most candidate files of a run
MaxFiles == 2
\* most data rows of the existing metadata file
MaxPrior == 1
\* most candidate files of a run whose extraction raises
MaxBroken == 1
\* most /update requests the server handles in ServerSpec
MaxUpdates == 2

Den == 2 ^ FracBits

\* ------------------------------------------------------------------- state
VARIABLES
  nstate,      \* NormSpec: "input" before the call, "done" after it
  nvalues,     \* NormSpec: the list passed as values
  ntmin,       \* NormSpec: target_min
  ntmax,       \* NormSpec: target_max
  nresult,     \* NormSpec: what map_to_int_range returned
  disk,        \* the files the program reads: the *.ttf files in listing
               \* order, the METADATA.pb files, each font's name table
  gstate,      \* GfnSpec: "input" before the call, "done" after it
  gfile,       \* GfnSpec: the fontfile passed to get_gfn
  gresult,     \* GfnSpec: what get_gfn returned
  pc,          \* main: where the run is
  args,        \* main: the parsed command line
  existing_data, \* main: the data rows of the file args.existing names
  broken,      \* the font files whose opening, rendering or angle read raises
  files_to_process, \* main: the candidate files
  rejected,    \* main: what filter-mode removed
  count,       \* analyse_fonts: how many of sorted(files) the loop has done
  fontinfo,    \* analyse_fonts, main: identifier -> record
  blacklisted, \* the module's list of excluded files
  extracted,   \* the files handed to get_darkness_and_width, in order
  resolved,    \* the files handed to get_gfn, in order
  applied,     \* which of filter-mode and overlay-mode the run has applied
  grid_data,   \* main: grid_data["data"], the rows of the grid; a row holds
               \* its id and, as values, the key of the record of fontinfo
               \* that its values are (the same dict object)
  output,      \* the lines of the file args.output names, once written
  saves        \* how many times save_csv has run

nvars == <<nstate, nvalues, ntmin, ntmax, nresult>>
gvars == <<gstate, gfile, gresult>>
mvars ==
  <<pc, args, existing_data, broken, files_to_process, rejected, count,
    fontinfo, blacklisted, extracted, resolved, applied>>
svars == <<grid_data, output, saves>>
vars == <<nvars, disk, gvars, mvars, svars>>

\* the parts of the state a specification does not use stay as they start
NormIdle ==
  nstate = "idle" /\ nvalues = <<>> /\ ntmin = 0 /\ ntmax = 0 /\ nresult = <<>>
GfnIdle == gstate = "idle" /\ gfile = <<>> /\ gresult = <<>>
DiskIdle == disk = [ttf |-> <<>>, metadata |-> {}, names |-> <<>>]
MainIdle ==
  /\ pc = "idle"
  /\ args = [existing |-> FALSE, missingmetadata |-> FALSE]
  /\ existing_data = <<>>
  /\ broken = {}
  /\ files_to_process = <<>>
  /\ rejected = <<>>
  /\ count = 0
  /\ fontinfo = <<>>
  /\ blacklisted = <<>>
  /\ extracted = <<>>
  /\ resolved = <<>>
  /\ applied = {}
  /\ grid_data = <<>>
  /\ output = <<>>
  /\ saves = 0

\* ----------------------------------------------------------------- numbers
\* mutant: floors instead of truncating toward zero
IntOfQuotient_floor(a, b) ==
  a \div b

\* int(a / b) for b > 0: Python's int() truncates toward zero
IntOfQuotient(a, b) ==
  IF a >= 0 THEN a \div b ELSE -((-a) \div b)

\* max(a, b) and min(a, b) of Python
PyMax(a, b) == IF a >= b THEN a ELSE b
PyMin(a, b) == IF a <= b THEN a ELSE b

\* sorted(values) for a list of numbers: a stable insertion sort
RECURSIVE InsertNum(_, _)
InsertNum(x, s) ==
  IF s = <<>> THEN <<x>>
  ELSE IF x < Head(s) THEN <<x>> \o s
  ELSE <<Head(s)>> \o InsertNum(x, Tail(s))

RECURSIVE SortedNums(_)
SortedNums(s) ==
  IF s = <<>> THEN <<>>
  ELSE InsertNum(s[Len(s)], SortedNums(SubSeq(s, 1, Len(s) - 1)))

\* a call that raises (ZeroDivisionError, IndexError) returns no list: it is
\* modelled as the empty tuple, which no call on a non-empty list returns
Raised == <<>>

\* ---------------------------------------------------------- map_to_int_range
\* the degenerate branch: every output is int(min_value) clamped
DegenerateValue(min_value, target_min, target_max) ==
  PyMin(PyMax(target_min, IntOfQuotient(min_value, Den)), target_max)

\* mutant: the divisor is padded to keep it from being zero
RescaledValue_padded(value, min_value, float_range, target_min, target_range) ==
  target_min
    + IntOfQuotient(target_range * (value - min_value), float_range + 1)

\* the general branch for one value
RescaledValue(value, min_value, float_range, target_min, target_range) ==
  target_min + IntOfQuotient(target_range * (value - min_value), float_range)

\* mutant: the degenerate test is missing
map_to_int_range_nodegenerate(values, target_min, target_max) ==
  LET values_ordered == SortedNums(values)
      min_value == values_ordered[1]
      max_value == values_ordered[Len(values_ordered)]
      target_range == target_max - target_min
      float_range == max_value - min_value
  IN  IF float_range = 0 THEN Raised
      ELSE [i \in 1..Len(values) |->
              RescaledValue(values[i], min_value, float_range,
                            target_min, target_range)]

\* mutant: the result is returned in sorted order, not in input order
map_to_int_range_sortedout(values, target_min, target_max) ==
  LET values_ordered == SortedNums(values)
      min_value == values_ordered[1]
      max_value == values_ordered[Len(values_ordered)]
      target_range == target_max - target_min
      float_range == max_value - min_value
  IN  IF min_value = max_value
      THEN [i \in 1..Len(values) |->
              DegenerateValue(min_value, target_min, target_max)]
      ELSE [i \in 1..Len(values) |->
              RescaledValue(values_ordered[Len(values) + 1 - i], min_value,
                            float_range, target_min, target_range)]

\* mutant: the degenerate branch does not clamp
map_to_int_range_noclamp(values, target_min, target_max) ==
  LET values_ordered == SortedNums(values)
      min_value == values_ordered[1]
      max_value == values_ordered[Len(values_ordered)]
      target_range == target_max - target_min
      float_range == max_value - min_value
  IN  IF min_value = max_value
      THEN [i \in 1..Len(values) |-> IntOfQuotient(min_value, Den)]
      ELSE [i \in 1..Len(values) |->
              RescaledValue(values[i], min_value, float_range,
                            target_min, target_range)]

map_to_int_range(values, target_min, target_max) ==
  LET values_ordered == SortedNums(values)
      min_value == values_ordered[1]
      max_value == values_ordered[Len(values_ordered)]
      target_range == target_max - target_min
      float_range == max_value - min_value
  IN  IF values = <<>> THEN Raised
      ELSE IF min_value = max_value
      THEN [i \in 1..Len(values) |->
              DegenerateValue(min_value, target_min, target_max)]
      ELSE IF float_range = 0 THEN Raised
      ELSE [i \in 1..Len(values) |->
              RescaledValue(values[i], min_value, float_range,
                            target_min, target_range)]

\* -------------------------------------------------------------- NormSpec
\* the raw values a list is drawn from: small ones of both signs and 50.0
RawValues == (-MaxNum..MaxNum) \cup {50 * Den}

\* the non-empty lists of at most MaxLen raw values
RawLists == UNION {[1..n -> RawValues] : n \in 1..MaxLen}

\* the (target_min, target_max) pairs tried: the default 1..10 and others
\* with target_min <= target_max, one of them a single point
TargetRanges == {<<1, 10>>, <<-2, 2>>, <<0, 3>>, <<3, 3>>}

NormInit ==
  /\ nstate = "input"
  /\ nvalues \in RawLists
  /\ \E r \in TargetRanges : ntmin = r[1] /\ ntmax = r[2]
  /\ nresult = <<>>
  /\ DiskIdle /\ GfnIdle /\ MainIdle

\* the call map_to_int_range(values, target_min, target_max)
NormCall ==
  /\ nstate = "input"
  /\ nstate' = "done"
  /\ nresult' = map_to_int_range(nvalues, ntmin, ntmax)
  /\ UNCHANGED <<nvalues, ntmin, ntmax, disk, gvars, mvars, svars>>

\* map_to_int_range alone, on every list and range of NormInit
NormSpec == NormInit /\ [][NormCall]_vars

\* -------------------------------------------------------------------- text
\* the characters used, in ASCII order
Digits == <<"0", "1", "2", "3", "4", "5", "6", "7", "8", "9">>
UpperCase ==
  <<"A", "B", "C", "D", "E", "F", "G", "H", "I", "J", "K", "L", "M",
    "N", "O", "P", "Q", "R", "S", "T", "U", "V", "W", "X", "Y", "Z">>
LowerCase ==
  <<"a", "b", "c", "d", "e", "f", "g", "h", "i", "j", "k", "l", "m",
    "n", "o", "p", "q", "r", "s", "t", "u", "v", "w", "x", "y", "z">>
Chars ==
  <<" ", "-", ".", "/">> \o Digits \o <<":">> \o UpperCase \o <<"_">>
    \o LowerCase

Range(s) == {s[i] : i \in 1..Len(s)}
Upper == Range(UpperCase)
Lower == Range(LowerCase)
Digit == Range(Digits)
\* the class \w of a regular expression
WordChar == Upper \cup Lower \cup Digit \cup {"_"}

\* ord(c)
Ord(c) == CHOOSE i \in 1..Len(Chars) : Chars[i] = c

\* a < b for two strings
RECURSIVE StrLess(_, _)
StrLess(a, b) ==
  IF b = <<>> THEN FALSE
  ELSE IF a = <<>> THEN TRUE
  ELSE IF Head(a) = Head(b) THEN StrLess(Tail(a), Tail(b))
  ELSE Ord(Head(a)) < Ord(Head(b))

\* needle in hay
Contains(needle, hay) ==
  \E i \in 0..(Len(hay) - Len(needle)) :
    SubSeq(hay, i + 1, i + Len(needle)) = needle

\* s.endswith(suffix)
EndsWith(s, suffix) ==
  /\ Len(suffix) <= Len(s)
  /\ SubSeq(s, Len(s) - Len(suffix) + 1, Len(s)) = suffix

\* s.strip(), for blanks
RECURSIVE Strip(_)
Strip(s) ==
  IF s = <<>> THEN s
  ELSE IF Head(s) = " " THEN Strip(Tail(s))
  ELSE IF s[Len(s)] = " " THEN Strip(SubSeq(s, 1, Len(s) - 1))
  ELSE s

\* ''.join(name.split(' ')): name without its blanks
RECURSIVE WithoutBlanks(_)
WithoutBlanks(s) ==
  IF s = <<>> THEN <<>>
  ELSE IF Head(s) = " " THEN WithoutBlanks(Tail(s))
  ELSE <<Head(s)>> \o WithoutBlanks(Tail(s))

\* s.split(':')[0]: s up to its first colon
RECURSIVE BeforeColon(_)
BeforeColon(s) ==
  IF s = <<>> \/ Head(s) = ":" THEN <<>>
  ELSE <<Head(s)>> \o BeforeColon(Tail(s))

\* str(n) for n >= 0
RECURSIVE DecimalOf(_)
DecimalOf(n) ==
  IF n < 10 THEN <<Digits[n + 1]>>
  ELSE DecimalOf(n \div 10) \o <<Digits[(n % 10) + 1]>>

\* the position of the last "/" of path, 0 when it has none
LastSlash(path) ==
  IF \E i \in 1..Len(path) : path[i] = "/"
  THEN CHOOSE i \in 1..Len(path) :
         path[i] = "/" /\ \A j \in (i + 1)..Len(path) : path[j] # "/"
  ELSE 0

\* os.path.dirname(path), for a path without doubled or trailing slashes
dirname(path) ==
  IF LastSlash(path) = 1 THEN <<"/">>
  ELSE SubSeq(path, 1, LastSlash(path) - 1)

\* os.path.join(dir, name), for a relative name
join(dir, name) ==
  IF dir = <<>> \/ dir[Len(dir)] = "/" THEN dir \o name
  ELSE dir \o <<"/">> \o name

\* "{}:{}:{}".format(family, style, weight)
FormatGfn(family, style, weight) ==
  family \o <<":">> \o style \o <<":">> \o DecimalOf(weight)

unknown == <<"u", "n", "k", "n", "o", "w", "n">>
normal == <<"n", "o", "r", "m", "a", "l">>
italic == <<"i", "t", "a", "l", "i", "c">>
Italic == <<"I", "t", "a", "l", "i", "c">>
dot_ttf == <<".", "t", "t", "f">>
METADATA_pb == <<"M", "E", "T", "A", "D", "A", "T", "A", ".", "p", "b">>

\* ---------------------------------------------------------- style and weight
_KNOWN_WEIGHTS ==
  { <<(<<"T", "h", "i", "n">>), 100>>,
    <<(<<"H", "a", "i", "r", "l", "i", "n", "e">>), 100>>,
    <<(<<"E", "x", "t", "r", "a", "L", "i", "g", "h", "t">>), 200>>,
    <<(<<"L", "i", "g", "h", "t">>), 300>>,
    <<(<<"R", "e", "g", "u", "l", "a", "r">>), 400>>,
    <<(<<>>), 400>>,
    <<(<<"M", "e", "d", "i", "u", "m">>), 500>>,
    <<(<<"S", "e", "m", "i", "B", "o", "l", "d">>), 600>>,
    <<(<<"B", "o", "l", "d">>), 700>>,
    <<(<<"E", "x", "t", "r", "a", "B", "o", "l", "d">>), 800>>,
    <<(<<"B", "l", "a", "c", "k">>), 900>> }

\* _KNOWN_WEIGHTS[token]: [ok |-> FALSE] models the KeyError
KnownWeight(token) ==
  LET found == {e \in _KNOWN_WEIGHTS : e[1] = token}
  IN  IF found # {}
      THEN [ok |-> TRUE, weight |-> (CHOOSE e \in found : TRUE)[2]]
      ELSE [ok |-> FALSE, weight |-> 0]

\* the pair (style, weight) of StyleWeight, or the KeyError of w
StyleWith(style, w) == [ok |-> w.ok, style |-> style, weight |-> w.weight]

\* StyleWeight(styleweight): [ok, style, weight]
StyleWeight(styleweight) ==
  IF EndsWith(styleweight, Italic)
  THEN StyleWith(italic,
                 KnownWeight(SubSeq(styleweight, 1, Len(styleweight) - 6)))
  ELSE StyleWith(normal, KnownWeight(styleweight))

\* the last position e >= i - 1 with s[i..e] all in class
RECURSIVE RunEnd(_, _, _)
RunEnd(s, i, class) ==
  IF i <= Len(s) /\ s[i] \in class THEN RunEnd(s, i + 1, class) ELSE i - 1

\* re.sub('(.)([A-Z][a-z]+)', r'\1 \2', s)
RECURSIVE SubUpperWord(_)
SubUpperWord(s) ==
  IF Len(s) < 3 THEN s
  ELSE IF s[2] \in Upper /\ s[3] \in Lower
  THEN LET e == RunEnd(s, 3, Lower)
       IN  <<s[1], " ">> \o SubSeq(s, 2, e)
             \o SubUpperWord(SubSeq(s, e + 1, Len(s)))
  ELSE <<s[1]>> \o SubUpperWord(Tail(s))

\* re.sub('([a-z])([0-9]+)', r'\1 \2', s)
RECURSIVE SubLowerDigits(_)
SubLowerDigits(s) ==
  IF Len(s) < 2 THEN s
  ELSE IF s[1] \in Lower /\ s[2] \in Digit
  THEN LET e == RunEnd(s, 2, Digit)
       IN  <<s[1], " ">> \o SubSeq(s, 2, e)
             \o SubLowerDigits(SubSeq(s, e + 1, Len(s)))
  ELSE <<s[1]>> \o SubLowerDigits(Tail(s))

\* re.sub('([a-z0-9])([A-Z])', r'\1 \2', s)
RECURSIVE SubLowerUpper(_)
SubLowerUpper(s) ==
  IF Len(s) < 2 THEN s
  ELSE IF s[1] \in (Lower \cup Digit) /\ s[2] \in Upper
  THEN <<s[1], " ", s[2]>> \o SubLowerUpper(SubSeq(s, 3, Len(s)))
  ELSE <<s[1]>> \o SubLowerUpper(Tail(s))

FamilyName(fontname) ==
  SubLowerUpper(SubLowerDigits(SubUpperWord(fontname)))

\* ------------------------------------------------- FileFamilyStyleWeight
\* where re.search(r'([^/-]+)-(\w+)\.ttf$', filename) finds the "-" between
\* its two groups: the last "-", when word characters alone separate it from
\* the final ".ttf" and a character other than "/" and "-" precedes it;
\* 0 when the search finds nothing
DashOf(filename) ==
  LET n == Len(filename)
      ds == {d \in 2..(n - 5) :
               /\ filename[d] = "-"
               /\ filename[d - 1] \notin {"/", "-"}
               /\ \A k \in (d + 1)..(n - 4) : filename[k] \in WordChar}
  IN  IF EndsWith(filename, dot_ttf) /\ ds # {}
      THEN CHOOSE d \in ds : TRUE
      ELSE 0

\* the first position b with filename[b..d-1] free of "/" and "-"
RECURSIVE GroupStart(_, _)
GroupStart(filename, d) ==
  IF d > 1 /\ filename[d - 1] \notin {"/", "-"}
  THEN GroupStart(filename, d - 1)
  ELSE d

\* what a call that raises gives in place of a tuple
NoTuple(filename) ==
  [ok |-> FALSE, file |-> filename, family |-> <<>>, style |-> <<>>,
   weight |-> 0]

\* lines 257-261, with the "-" at d and sw == StyleWeight(m.group(2)), whose
\* KeyError for an unknown weight is passed on
TupleWith(filename, d, sw) ==
  IF ~sw.ok THEN NoTuple(filename)
  ELSE [ok |-> TRUE, file |-> filename,
        family |-> FamilyName(SubSeq(filename, GroupStart(filename, d),
                                     d - 1)),
        style |-> sw.style, weight |-> sw.weight]

\* lines 253-261, with d == DashOf(filename): the ParseError of a name that
\* does not match, or the tuple
TupleAt(filename, d) ==
  IF d = 0 THEN NoTuple(filename)
  ELSE TupleWith(filename, d,
                 StyleWeight(SubSeq(filename, d + 1, Len(filename) - 4)))

\* FileFamilyStyleWeight(filename): [ok |-> FALSE] models its ParseError and
\* the KeyError of StyleWeight
FileFamilyStyleWeight(filename) == TupleAt(filename, DashOf(filename))

\* glob.glob(os.path.join(fontdir, '*.ttf')), in the listing order of disk
GlobTtf(fontdir) ==
  SelectSeq(disk.ttf,
            LAMBDA f : /\ dirname(f) = fontdir
                       /\ EndsWith(f, dot_ttf)
                       /\ f[LastSlash(f) + 1] # ".")

\* _Cmp(r1, r2) < 0: by weight, then normal before italic
CmpLess(r1, r2) ==
  \/ r1.weight < r2.weight
  \/ r1.weight = r2.weight /\ StrLess(r2.style, r1.style)

\* sorted(result, _Cmp): a stable insertion sort
RECURSIVE InsertAttr(_, _)
InsertAttr(x, s) ==
  IF s = <<>> THEN <<x>>
  ELSE IF CmpLess(x, Head(s)) THEN <<x>> \o s
  ELSE <<Head(s)>> \o InsertAttr(x, Tail(s))

RECURSIVE SortedAttrs(_)
SortedAttrs(s) ==
  IF s = <<>> THEN <<>>
  ELSE InsertAttr(s[Len(s)], SortedAttrs(SubSeq(s, 1, Len(s) - 1)))

\* os.path.isdir(fontdir) for the directory name of a file that exists: the
\* empty name (a file given without a directory) is no directory
isdir(fontdir) == fontdir # <<>>

\* lines 286-295, with result the tuples of the files: sorted by _Cmp, or
\* the RuntimeError of two family names.  A file that did not parse has
\* raised at line 285
SortedResult(result) ==
  IF \/ \E i \in 1..Len(result) : ~result[i].ok
     \/ Cardinality({result[i].family : i \in 1..Len(result)}) > 1
  THEN [ok |-> FALSE, list |-> <<>>]
  ELSE [ok |-> TRUE, list |-> SortedAttrs(result)]

\* lines 281-295, with files the *.ttf files of the directory: the OSError of
\* an empty directory, or the tuples
ResultOf(files) ==
  IF files = <<>> THEN [ok |-> FALSE, list |-> <<>>]
  ELSE SortedResult([i \in 1..Len(files) |-> FileFamilyStyleWeight(files[i])])

\* _FileFamilyStyleWeights(fontdir): [ok |-> FALSE] models the OSError of a
\* missing or empty directory, the error of a file that does not parse and
\* the RuntimeError of two family names in one directory
_FileFamilyStyleWeights(fontdir) ==
  IF ~isdir(fontdir) THEN [ok |-> FALSE, list |-> <<>>]
  ELSE ResultOf(GlobTtf(fontdir))

\* ------------------------------------------------------------------ get_gfn
NAMEID_FONT_FAMILY_NAME == 1
NAMEID_FONT_SUBFAMILY_NAME == 2

\* a local variable of get_gfn that nothing was assigned to yet
Unbound == <<"unbound">>
\* the local variable family while it holds the FamilyProto message
ProtoObject == <<"FamilyProto">>
\* how "{}".format shows a FamilyProto message: its text form, shortened here
\* to its first field name
ProtoText == <<"n", "a", "m", "e", ":">>

\* the METADATA.pb files at path (none or one)
MetadataAt(path) == {m \in disk.metadata : m.path = path}

\* the first i with list[i].<name> a substring of fontfile, 0 when none
\* (lines 304-307 with font.filename, lines 311-314 with fontfname)
FirstIn(names, fontfile) ==
  IF \E i \in 1..Len(names) : Contains(names[i], fontfile)
  THEN CHOOSE i \in 1..Len(names) :
         /\ Contains(names[i], fontfile)
         /\ \A j \in 1..(i - 1) : ~Contains(names[j], fontfile)
  ELSE 0

\* lines 304-307, with i the first entry whose filename is in fontfile (0:
\* none).  The locals after the loop: gfn, family (which holds the message),
\* and style and weight, still unbound
SidecarMatch(family, i) ==
  [gfn |-> IF i = 0 THEN unknown
           ELSE FormatGfn(family.name, family.fonts[i].style,
                          family.fonts[i].weight),
   family |-> ProtoObject, sw |-> Unbound]

\* lines 302-307: METADATA.pb exists and family is its message
SidecarSource(fontfile, family) ==
  SidecarMatch(family,
               FirstIn([k \in 1..Len(family.fonts) |->
                          family.fonts[k].filename], fontfile))

\* lines 311-314, with i the first tuple whose file is in fontfile (0: none).
\* The loop variables family, style and weight keep the values of the last
\* tuple the loop reached
NamingMatch(list, i, last) ==
  [gfn |-> IF i = 0 THEN unknown
           ELSE FormatGfn(list[i].family, list[i].style, list[i].weight),
   family |-> list[last].family,
   sw |-> <<list[last].style, list[last].weight>>]

\* lines 309-316, with attributes what _FileFamilyStyleWeights gave: when it
\* raised, the except leaves gfn and the locals as they were
NamingLoop(fontfile, attributes, i) ==
  IF ~attributes.ok
  THEN [gfn |-> unknown, family |-> Unbound, sw |-> Unbound]
  ELSE NamingMatch(attributes.list, i,
                   IF i = 0 THEN Len(attributes.list) ELSE i)

\* the same, with the first match looked up
NamingIn(fontfile, attributes) ==
  NamingLoop(fontfile, attributes,
             FirstIn([k \in 1..Len(attributes.list) |->
                        attributes.list[k].file], fontfile))

\* lines 308-316: no METADATA.pb
NamingSource(fontfile) ==
  NamingIn(fontfile, _FileFamilyStyleWeights(dirname(fontfile)))

\* line 327 with sw == StyleWeight(...), from the locals l: [ok |-> FALSE]
\* models the KeyError of an unknown subfamily
SubfamilyStep(l, sw) ==
  IF sw.ok
  THEN [ok |-> TRUE, family |-> l.family, sw |-> <<sw.style, sw.weight>>]
  ELSE [ok |-> FALSE, family |-> l.family, sw |-> l.sw]

\* lines 324-327: one entry of the name table, from the locals l
NameStep(entry, l) ==
  IF entry.nameID = NAMEID_FONT_FAMILY_NAME
  THEN [ok |-> TRUE, family |-> Strip(entry.string), sw |-> l.sw]
  ELSE IF entry.nameID = NAMEID_FONT_SUBFAMILY_NAME
  THEN SubfamilyStep(l, StyleWeight(Strip(entry.string)))
  ELSE [ok |-> TRUE, family |-> l.family, sw |-> l.sw]

\* lines 323-327: the loop over the name table entries, from the locals l
RECURSIVE NameLoop(_, _)
NameLoop(names, l) ==
  IF names = <<>> \/ ~l.ok THEN l
  ELSE NameLoop(Tail(names), NameStep(Head(names), l))

\* lines 328-330, with r the locals after the loop: an empty family name
\* leaves gfn as it is, and an unbound family, style or weight raises
\* inside the try
NameTableGfn(r) ==
  IF ~r.ok \/ r.family = <<>> \/ r.family = Unbound \/ r.sw = Unbound
  THEN unknown
  ELSE FormatGfn(IF r.family = ProtoObject THEN ProtoText ELSE r.family,
                 r.sw[1], r.sw[2])

\* lines 318-335: the name table as the last resort, from the locals l left
\* by the first stage.  An unreadable table raises inside the try as well
NameTableSource(ttfont, l) ==
  IF ~ttfont.hasName THEN unknown
  ELSE NameTableGfn(NameLoop(ttfont.names,
                             [ok |-> TRUE, family |-> l.family, sw |-> l.sw]))

\* mutant: the naming convention is also tried when METADATA.pb exists and
\* has no entry for the file (the else taken as the loop's)
FirstStage_forelse(fontfile, found) ==
  IF found # {}
       /\ SidecarSource(fontfile, CHOOSE m \in found : TRUE).gfn # unknown
  THEN SidecarSource(fontfile, CHOOSE m \in found : TRUE)
  ELSE NamingSource(fontfile)

\* lines 302-316, with found the METADATA.pb files of the directory: the
\* sidecar when there is one, the naming convention otherwise
FirstStage(fontfile, found) ==
  IF found # {} THEN SidecarSource(fontfile, CHOOSE m \in found : TRUE)
  ELSE NamingSource(fontfile)

\* lines 318-340, with first what the first stage left
LastResort(ttfont, first) ==
  IF first.gfn # unknown THEN first.gfn
  ELSE NameTableSource(ttfont, first)

get_gfn(fontfile, ttfont) ==
  LastResort(ttfont,
             FirstStage(fontfile,
                        MetadataAt(join(dirname(fontfile), METADATA_pb))))

\* TTFont(fontfile), as far as get_gfn reads it: the name table
TTFont(fontfile) == disk.names[fontfile]

\* ------------------------------------------------------- the files on disk
\* a/AbCd-Bold.ttf
File_AbCdBold ==
  <<"a", "/", "A", "b", "C", "d", "-", "B", "o", "l", "d">> \o dot_ttf
\* a/AbCd-Italic.ttf
File_AbCdItalic ==
  <<"a", "/", "A", "b", "C", "d", "-", "I", "t", "a", "l", "i", "c">>
    \o dot_ttf
\* a/AbCd-Black.otf: a font that the *.ttf pattern of the scan does not list
File_AbCdOtf ==
  <<"a", "/", "A", "b", "C", "d", "-", "B", "l", "a", "c", "k",
    ".", "o", "t", "f">>
\* b/Rubik-Bold.ttf: on the BLACKLIST
File_Rubik ==
  <<"b", "/", "R", "u", "b", "i", "k", "-", "B", "o", "l", "d">> \o dot_ttf
\* c/Ef-Chunky.ttf: Chunky is no known weight
File_EfChunky ==
  <<"c", "/", "E", "f", "-", "C", "h", "u", "n", "k", "y">> \o dot_ttf
\* c/Ef-Thin.ttf
File_EfThin ==
  <<"c", "/", "E", "f", "-", "T", "h", "i", "n">> \o dot_ttf

FontFiles ==
  {File_AbCdBold, File_AbCdItalic, File_AbCdOtf, File_Rubik, File_EfChunky,
   File_EfThin}

\* a/METADATA.pb: family AbCd, with an entry for AbCd-Bold.ttf alone
Meta_a ==
  [path |-> <<"a", "/">> \o METADATA_pb,
   name |-> <<"A", "b", "C", "d">>,
   fonts |-> <<[filename |-> SubSeq(File_AbCdBold, 3, Len(File_AbCdBold)),
                style |-> normal, weight |-> 700]>>]
\* c/METADATA.pb: family Ef, with entries for Ef-Thin.ttf and Ef-Chunky.ttf
Meta_c ==
  [path |-> <<"c", "/">> \o METADATA_pb,
   name |-> <<"E", "f">>,
   fonts |-> <<[filename |-> SubSeq(File_EfThin, 3, Len(File_EfThin)),
                style |-> normal, weight |-> 100],
               [filename |-> SubSeq(File_EfChunky, 3, Len(File_EfChunky)),
                style |-> normal, weight |-> 400]>>]

\* name tables: unreadable; family " Gh " and subfamily BoldItalic; family Gh
\* and the subfamily "Bold Italic", which is no known token; an empty family
\* name; a subfamily and no family entry
NT_unreadable == [hasName |-> FALSE, names |-> <<>>]
NT_good ==
  [hasName |-> TRUE,
   names |-> <<[nameID |-> NAMEID_FONT_FAMILY_NAME,
                string |-> <<" ", "G", "h", " ">>],
               [nameID |-> NAMEID_FONT_SUBFAMILY_NAME,
                string |-> <<"B", "o", "l", "d">> \o Italic]>>]
NT_unknownstyle ==
  [hasName |-> TRUE,
   names |-> <<[nameID |-> NAMEID_FONT_FAMILY_NAME, string |-> <<"G", "h">>],
               [nameID |-> NAMEID_FONT_SUBFAMILY_NAME,
                string |-> <<"B", "o", "l", "d", " ">> \o Italic]>>]
NT_emptyfamily ==
  [hasName |-> TRUE,
   names |-> <<[nameID |-> NAMEID_FONT_FAMILY_NAME, string |-> <<" ">>],
               [nameID |-> NAMEID_FONT_SUBFAMILY_NAME,
                string |-> <<"B", "o", "l", "d">>]>>]
NT_nofamily ==
  [hasName |-> TRUE,
   names |-> <<[nameID |-> 0, string |-> <<"x">>],
               [nameID |-> NAMEID_FONT_SUBFAMILY_NAME,
                string |-> <<"T", "h", "i", "n">>]>>]

NameTables ==
  {NT_unreadable, NT_good, NT_unknownstyle, NT_emptyfamily, NT_nofamily}

\* the sequences of at most n different elements of S
RECURSIVE Listings(_, _)
Listings(S, n) ==
  IF n = 0 THEN {<<>>}
  ELSE LET shorter == Listings(S, n - 1)
       IN  shorter \cup
             {Append(l, x) : l \in {k \in shorter : Len(k) = n - 1},
                             x \in S}

\* the *.ttf files of FontFiles
TtfFiles == {f \in FontFiles : EndsWith(f, dot_ttf)}

\* a listing holds no file twice
NoRepeat(l) == \A i, j \in 1..Len(l) : l[i] = l[j] => i = j

\* --------------------------------------------------------------- GfnSpec
\* the disks of GfnSpec: fontfile exists, so a listing of *.ttf files holds
\* it when it is one; every font carries the same name table
GfnDisks(fontfile) ==
  {[ttf |-> l, metadata |-> ms, names |-> [f \in FontFiles |-> nt]] :
     l \in {k \in Listings(TtfFiles, MaxListed) :
              /\ NoRepeat(k)
              /\ fontfile \in TtfFiles => fontfile \in Range(k)},
     ms \in SUBSET {Meta_a, Meta_c},
     nt \in NameTables}

GfnInit ==
  /\ gstate = "input"
  /\ gfile \in FontFiles
  /\ disk \in GfnDisks(gfile)
  /\ gresult = <<>>
  /\ NormIdle /\ MainIdle

\* the call get_gfn(fontfile, ttfont)
GfnCall ==
  /\ gstate = "input"
  /\ gstate' = "done"
  /\ gresult' = get_gfn(gfile, TTFont(gfile))
  /\ UNCHANGED <<disk, gfile, nvars, mvars, svars>>

\* get_gfn alone, on every file and disk of GfnInit
GfnSpec == GfnInit /\ [][GfnCall]_vars

\* -------------------------------------------------------- analyse_fonts
BLACKLIST ==
  << <<"P", "a", "d", "a", "u", "k">>,
     <<"K", "u", "m", "a", "r", "O", "n", "e">>,
     <<"A", "d", "o", "b", "e", "B", "l", "a", "n", "k">>,
     <<"P", "h", "e", "t", "s", "a", "r", "a", "t", "h">>,
     <<"C", "o", "r", "b", "e", "n">>,
     <<"R", "u", "b", "i", "k">> >>

\* mutant: a file is excluded only when its whole name is on the list
is_blacklisted_exact(filename) ==
  \E i \in 1..Len(BLACKLIST) : BLACKLIST[i] = filename

\* is_blacklisted(filename): true, or None, which the caller takes as false
is_blacklisted(filename) ==
  \E i \in 1..Len(BLACKLIST) : Contains(BLACKLIST[i], filename)

\* sorted(files) for a list of strings: a stable insertion sort
RECURSIVE InsertStr(_, _)
InsertStr(x, s) ==
  IF s = <<>> THEN <<x>>
  ELSE IF StrLess(x, Head(s)) THEN <<x>> \o s
  ELSE <<Head(s)>> \o InsertStr(x, Tail(s))

RECURSIVE SortedStrs(_)
SortedStrs(s) ==
  IF s = <<>> THEN <<>>
  ELSE InsertStr(s[Len(s)], SortedStrs(SubSeq(s, 1, Len(s) - 1)))

\* sorted(fontinfo.keys()): the keys, which differ from each other, ascending
RECURSIVE SortedKeys(_)
SortedKeys(S) ==
  IF S = {} THEN <<>>
  ELSE LET m == CHOOSE x \in S : \A y \in S \ {x} : StrLess(x, y)
       IN  <<m>> \o SortedKeys(S \ {m})

\* what get_darkness_and_width and get_angle measure on the fonts that
\* render: darkness in [0, 1], the width in pixels, the signed italic angle,
\* each as a numerator over Den.  a/AbCd-Bold.ttf and a/AbCd-Black.otf are
\* equally dark and wide.  (The base64 image is left out.)
Measured(fontfile) ==
  IF fontfile \in {File_AbCdBold, File_AbCdOtf}
  THEN [weight |-> Den, width |-> 700 * Den, angle |-> 0]
  ELSE IF fontfile = File_AbCdItalic
  THEN [weight |-> 1, width |-> 640 * Den, angle |-> -(12 * Den)]
  ELSE IF fontfile = File_EfChunky
  THEN [weight |-> Den - 1, width |-> 600 * Den + 1, angle |-> -(9 * Den + 1)]
  ELSE [weight |-> 0, width |-> 600 * Den, angle |-> 0]

\* the fonts whose opening, rendering or angle read may raise
Unrenderable == {File_AbCdBold, File_AbCdItalic, File_Rubik}

\* lines 364-371: the record of fontfile
FontRecord(fontfile, gfn, m) ==
  [weight |-> m.weight, width |-> m.width, angle |-> m.angle,
   usage |-> "unknown", gfn |-> gfn, fontfile |-> fontfile]

\* mutant: a record is stored only under an identifier that has none yet
WithRecord_keepfirst(info, gfn, record) ==
  [k \in DOMAIN info \cup {gfn} |-> IF k \in DOMAIN info THEN info[k] ELSE record]

\* fontinfo[gfn] = record
WithRecord(info, gfn, record) ==
  [k \in DOMAIN info \cup {gfn} |-> IF k = gfn THEN record ELSE info[k]]

\* lines 362-371: the record of fontfile, measured as m, stored under gfn
WithFont(info, fontfile, gfn, m) ==
  WithRecord(info, gfn, FontRecord(fontfile, gfn, m))

\* the file the loop of analyse_fonts is at
CurrentFile == SortedStrs(files_to_process)[count + 1]

\* lines 352-355: the file is on the BLACKLIST
AnalyseSkip ==
  /\ pc = "analyse"
  /\ count < Len(files_to_process)
  /\ is_blacklisted(CurrentFile)
  /\ blacklisted' = Append(blacklisted, CurrentFile)
  /\ count' = count + 1
  /\ UNCHANGED <<pc, args, existing_data, broken, files_to_process, rejected,
                 fontinfo, extracted, resolved, applied, disk, nvars, gvars,
                 svars>>

\* lines 356-371: the file is opened, measured and resolved, and its record
\* is stored under its identifier
AnalyseFile ==
  /\ pc = "analyse"
  /\ count < Len(files_to_process)
  /\ ~is_blacklisted(CurrentFile)
  /\ CurrentFile \notin broken
  /\ fontinfo' = WithFont(fontinfo, CurrentFile,
                          get_gfn(CurrentFile, TTFont(CurrentFile)),
                          Measured(CurrentFile))
  /\ extracted' = Append(extracted, CurrentFile)
  /\ resolved' = Append(resolved, CurrentFile)
  /\ count' = count + 1
  /\ UNCHANGED <<pc, args, existing_data, broken, files_to_process, rejected,
                 blacklisted, applied, disk, nvars, gvars,
                 svars>>

\* mutant: the failure of one file is caught and the loop goes on
AnalyseRaise_caught ==
  /\ pc = "analyse"
  /\ count < Len(files_to_process)
  /\ ~is_blacklisted(CurrentFile)
  /\ CurrentFile \in broken
  /\ \E stage \in {"open", "render", "angle"} :
       extracted' = IF stage = "open" THEN extracted
                    ELSE Append(extracted, CurrentFile)
  /\ count' = count + 1
  /\ UNCHANGED <<pc, args, existing_data, broken, files_to_process, rejected,
                 fontinfo, blacklisted, resolved, applied, disk, nvars, gvars,
                 svars>>

\* lines 359-361: TTFont, get_darkness_and_width or get_angle raises.  Nothing
\* catches it in analyse_fonts or in main: the run ends with the traceback
AnalyseRaise ==
  /\ pc = "analyse"
  /\ count < Len(files_to_process)
  /\ ~is_blacklisted(CurrentFile)
  /\ CurrentFile \in broken
  /\ \E stage \in {"open", "render", "angle"} :
       extracted' = IF stage = "open" THEN extracted
                    ELSE Append(extracted, CurrentFile)
  /\ pc' = "crashed"
  /\ UNCHANGED <<args, existing_data, broken, files_to_process, rejected,
                 count, fontinfo, blacklisted, resolved, applied, disk, nvars,
                 gvars,
                 svars>>

\* mutant: the run also ends when no key but "unknown" came back
AnalyseReturn_unknown ==
  /\ pc = "analyse"
  /\ count = Len(files_to_process)
  /\ pc' = IF DOMAIN fontinfo \subseteq {unknown} THEN "exit_blacklisted"
           ELSE "normalise"
  /\ UNCHANGED <<args, existing_data, broken, files_to_process, rejected,
                 count, fontinfo, blacklisted, extracted, resolved, applied,
                 disk, nvars, gvars,
                 svars>>

\* lines 372 and 485-488: analyse_fonts returns fontinfo, and main exits
\* with "All specified fonts are blacklisted!" when it is empty
AnalyseReturn ==
  /\ pc = "analyse"
  /\ count = Len(files_to_process)
  /\ pc' = IF DOMAIN fontinfo = {} THEN "exit_blacklisted" ELSE "normalise"
  /\ UNCHANGED <<args, existing_data, broken, files_to_process, rejected,
                 count, fontinfo, blacklisted, extracted, resolved, applied,
                 disk, nvars, gvars,
                 svars>>

\* --------------------------------------------------------------------- main
\* int(text) for a text of decimal digits
RECURSIVE IntOfText(_)
IntOfText(text) ==
  IF text = <<>> THEN 0
  ELSE 10 * IntOfText(SubSeq(text, 1, Len(text) - 1))
         + (Ord(text[Len(text)]) - Ord("0"))

\* lines 477-480: the loop over enumerate(files_to_process) that pops while
\* it iterates; f is the index the iterator is at (from 1 here), r the
\* rejected list
RECURSIVE PopLoop(_, _, _, _, _)
PopLoop(files, r, f, name, row0) ==
  IF f > Len(files) THEN [files |-> files, rejected |-> r]
  ELSE IF Contains(name, files[f])
  THEN PopLoop(SubSeq(files, 1, f - 1) \o SubSeq(files, f + 1, Len(files)),
               Append(r, files[f] \o <<":">> \o row0), f + 1, name, row0)
  ELSE PopLoop(files, r, f + 1, name, row0)

\* lines 473-480: the loop over the rows of the existing file
RECURSIVE FilterRows(_, _, _)
FilterRows(rows, files, r) ==
  IF rows = <<>> THEN [files |-> files, rejected |-> r]
  ELSE LET name == WithoutBlanks(BeforeColon(Head(rows).gfn))
           popped == PopLoop(files, r, 1, name, Head(rows).gfn)
       IN  FilterRows(Tail(rows), popped.files, popped.rejected)

\* lines 506-517: the records, each with its three normalised values
WithColumns(info, keys, weights, widths, angles) ==
  [k \in DOMAIN info |->
     LET i == CHOOSE n \in 1..Len(keys) : keys[n] = k
     IN  [weight_int |-> weights[i], width_int |-> widths[i],
          angle_int |-> angles[i]] @@ info[k]]

\* abs(x)
Abs(x) == IF x < 0 THEN -x ELSE x

\* lines 491-517, with keys == sorted(fontinfo.keys()): the three columns,
\* each normalised over the records in the order of the keys, the angle by
\* its absolute value
NormalisedIn(info, keys) ==
  WithColumns(info, keys,
    map_to_int_range([i \in 1..Len(keys) |-> info[keys[i]].weight], 1, 10),
    map_to_int_range([i \in 1..Len(keys) |-> info[keys[i]].width], 1, 10),
    map_to_int_range([i \in 1..Len(keys) |-> Abs(info[keys[i]].angle)],
                     1, 10))

Normalised(info) == NormalisedIn(info, SortedKeys(DOMAIN info))

\* mutant: the columns of a row are read in the order weight, width, angle
OverlayRow_swapped(info, row) ==
  IF row.gfn \in DOMAIN info
  THEN [info EXCEPT ![row.gfn] =
          [weight_int |-> IntOfText(row.fwe), angle_int |-> IntOfText(row.fwi),
           width_int |-> IntOfText(row.fia), usage |-> row.usage] @@ @]
  ELSE info

\* lines 525-530: one row of the existing file
OverlayRow(info, row) ==
  IF row.gfn \in DOMAIN info
  THEN [info EXCEPT ![row.gfn] =
          [weight_int |-> IntOfText(row.fwe), angle_int |-> IntOfText(row.fia),
           width_int |-> IntOfText(row.fwi), usage |-> row.usage] @@ @]
  ELSE info

\* lines 524-530: the loop over the rows
RECURSIVE Overlaid(_, _)
Overlaid(info, rows) ==
  IF rows = <<>> THEN info
  ELSE Overlaid(OverlayRow(info, Head(rows)), Tail(rows))

\* lines 458-463: the patterns are expanded; no file at all ends the run
Glob ==
  /\ pc = "start"
  /\ pc' = IF files_to_process = <<>> THEN "exit_nofiles" ELSE "filter"
  /\ UNCHANGED <<args, existing_data, broken, files_to_process, rejected,
                 count, fontinfo, blacklisted, extracted, resolved, applied,
                 disk, nvars, gvars,
                 svars>>

\* lines 465-467: --missingmetadata without --existing ends the run
FilterUsage ==
  /\ pc = "filter"
  /\ args.missingmetadata /\ ~args.existing
  /\ pc' = "exit_usage"
  /\ UNCHANGED <<args, existing_data, broken, files_to_process, rejected,
                 count, fontinfo, blacklisted, extracted, resolved, applied,
                 disk, nvars, gvars,
                 svars>>

\* lines 468-482: filter-mode
Filter ==
  /\ pc = "filter"
  /\ args.missingmetadata /\ args.existing
  /\ \E done \in {FilterRows(existing_data, files_to_process, <<>>)} :
       files_to_process' = done.files /\ rejected' = done.rejected
  /\ applied' = applied \cup {"filter"}
  /\ pc' = "analyse"
  /\ UNCHANGED <<args, existing_data, broken, count, fontinfo, blacklisted,
                 extracted, resolved, disk, nvars, gvars,
                 svars>>

\* line 465, without --missingmetadata
NoFilter ==
  /\ pc = "filter"
  /\ ~args.missingmetadata
  /\ pc' = "analyse"
  /\ UNCHANGED <<args, existing_data, broken, files_to_process, rejected,
                 count, fontinfo, blacklisted, extracted, resolved, applied,
                 disk, nvars, gvars,
                 svars>>

\* lines 491-517
Normalise ==
  /\ pc = "normalise"
  /\ fontinfo' = Normalised(fontinfo)
  /\ pc' = "overlay"
  /\ UNCHANGED <<args, existing_data, broken, files_to_process, rejected,
                 count, blacklisted, extracted, resolved, applied, disk,
                 nvars, gvars,
                 svars>>

\* lines 519-530: overlay-mode
Overlay ==
  /\ pc = "overlay"
  /\ args.existing /\ ~args.missingmetadata
  /\ fontinfo' = Overlaid(fontinfo, existing_data)
  /\ applied' = applied \cup {"overlay"}
  /\ pc' = "debug"
  /\ UNCHANGED <<args, existing_data, broken, files_to_process, rejected,
                 count, blacklisted, extracted, resolved, disk, nvars, gvars,
                 svars>>

\* line 520, when its test fails
NoOverlay ==
  /\ pc = "overlay"
  /\ ~(args.existing /\ ~args.missingmetadata)
  /\ pc' = "debug"
  /\ UNCHANGED <<args, existing_data, broken, files_to_process, rejected,
                 count, fontinfo, blacklisted, extracted, resolved, applied,
                 disk, nvars, gvars,
                 svars>>

\* mutant: the records with the identifier "unknown" get a row as well
Grids_withunknown(info) ==
  {[n \in 1..Len(l) |-> [id |-> n, values |-> l[n]]] :
     l \in {k \in Listings(DOMAIN info, Cardinality(DOMAIN info)) :
              NoRepeat(k) /\ Len(k) = Cardinality(DOMAIN info)}}

\* lines 565-579: grid_data["data"] gets a row for every record whose gfn is
\* not "unknown", with the ids 1, 2, ... in the order in which the dict
\* yields its keys, which is any order.  (The images are left out.)
Grids(info) ==
  {[n \in 1..Len(l) |-> [id |-> n, values |-> l[n]]] :
     l \in {k \in Listings({g \in DOMAIN info : info[g].gfn # unknown},
                           Cardinality(DOMAIN info)) :
              /\ NoRepeat(k)
              /\ Len(k) = Cardinality({g \in DOMAIN info :
                                         info[g].gfn # unknown})}}

\* lines 533-542 and 544-621: with --debug, which is read here alone, the
\* values are printed and the run ends; without it the grid is built and the
\* server started
Debug ==
  /\ pc = "debug"
  /\ \E debug \in BOOLEAN :
       IF debug
       THEN pc' = "exit_debug" /\ grid_data' = grid_data
       ELSE pc' = "serving" /\ grid_data' \in Grids(fontinfo)
  /\ UNCHANGED <<args, existing_data, broken, files_to_process, rejected,
                 count, fontinfo, blacklisted, extracted, resolved, applied,
                 disk, nvars, gvars, output, saves>>

\* line 585: the first row of the file
Header == <<"GFN", "FWE", "FIA", "FWI", "USAGE">>

\* what csv.writer writes for a cell: a number in decimal, a text as it is
CellOf(value) == IF value \in Int THEN DecimalOf(value) ELSE value

\* lines 587-593: the row of the file for a row of the grid
CsvRow(values) ==
  <<values.gfn, CellOf(values.weight_int), CellOf(values.angle_int),
    CellOf(values.width_int), values.usage>>

\* line 586: sorted(grid_data['data'], key=lambda d: d['values']['gfn']), a
\* stable sort, as an insertion sort
RECURSIVE InsertRow(_, _, _)
InsertRow(x, s, info) ==
  IF s = <<>> THEN <<x>>
  ELSE IF StrLess(info[x.values].gfn, info[Head(s).values].gfn)
  THEN <<x>> \o s
  ELSE <<Head(s)>> \o InsertRow(x, Tail(s), info)

RECURSIVE SortedRows(_, _)
SortedRows(s, info) ==
  IF s = <<>> THEN <<>>
  ELSE InsertRow(s[Len(s)], SortedRows(SubSeq(s, 1, Len(s) - 1), info), info)

\* the rows of the file, from the sorted rows of the grid
WrittenRows(rows, info) ==
  [n \in 1..Len(rows) |-> CsvRow(info[rows[n].values])]

\* lines 581-594: save_csv, which writes the file anew
save_csv(grid, info) == <<Header>> \o WrittenRows(SortedRows(grid, info), info)

\* lines 611-613: row['values'][colname] = newvalue in the row with the id;
\* the values of a row are the record of fontinfo
Updated(info, grid, rowid, colname, newvalue) ==
  [k \in DOMAIN info |->
     IF \E n \in 1..Len(grid) : grid[n].id = rowid /\ grid[n].values = k
     THEN [info[k] EXCEPT ![colname] = newvalue]
     ELSE info[k]]

\* an identifier typed into the GFN column
TypedGfn == FormatGfn(<<"A">>, normal, 400)

\* the single-field edits the grid sends: the GFN and USAGE columns are
\* editable, and the handler takes any text
Edits ==
  {[colname |-> "gfn", newvalue |-> unknown],
   [colname |-> "gfn", newvalue |-> TypedGfn],
   [colname |-> "usage", newvalue |-> "body"]}

\* lines 606-614: the route /update changes one field of the row with the
\* id of the request, when there is one, and saves the file
update ==
  /\ pc = "serving"
  /\ saves < MaxUpdates
  /\ \E rowid \in 1..(Len(grid_data) + 1), edit \in Edits :
       \E info \in {Updated(fontinfo, grid_data, rowid, edit.colname,
                            edit.newvalue)} :
         /\ fontinfo' = info
         /\ output' = save_csv(grid_data, info)
  /\ saves' = saves + 1
  /\ UNCHANGED <<pc, args, existing_data, broken, files_to_process, rejected,
                 count, blacklisted, extracted, resolved, applied, grid_data,
                 disk, nvars, gvars>>

\* --------------------------------------------------------------- the runs
\* the data rows of an existing metadata file: identifier, FWE, FIA, FWI and
\* USAGE, as the text read from the file
Row_AbCdBold ==
  [gfn |-> FormatGfn(<<"A", "b", "C", "d">>, normal, 700),
   fwe |-> <<"8">>, fia |-> <<"3">>, fwi |-> <<"4">>, usage |-> "body"]
Row_AbCdItalic ==
  [gfn |-> FormatGfn(<<"A", "b", " ", "C", "d">>, italic, 400),
   fwe |-> <<"2">>, fia |-> <<"9">>, fwi |-> <<"5">>, usage |-> "header"]
Row_Gh ==
  [gfn |-> FormatGfn(<<"G", "h">>, italic, 700),
   fwe |-> <<"1", "0">>, fia |-> <<"1">>, fwi |-> <<"7">>, usage |-> "unknown"]

PriorRows == {Row_AbCdBold, Row_AbCdItalic, Row_Gh}

\* the existing files: written by an earlier run, one row for an identifier
PriorTables == {t \in Listings(PriorRows, MaxPrior) : NoRepeat(t)}

\* the candidate lists: what patterns that do not overlap expand to, in any
\* order
FileLists(n) == {l \in Listings(FontFiles, n) : NoRepeat(l)}

\* the disks of a run: every *.ttf file listed, with or without the
\* METADATA.pb of a/; a/AbCd-Black.otf alone has a readable name table
MainDisks ==
  {[ttf |-> SortedStrs(SortedKeys(TtfFiles)), metadata |-> ms,
    names |-> [f \in FontFiles |->
                 IF f = File_AbCdOtf THEN NT_good ELSE NT_unreadable]] :
     ms \in {{}, {Meta_a}}}

\* ---------------------------------------------------- the specifications
\* a run of main: the command line, the existing file, the candidate list,
\* the fonts that do not open or render, and the disk
Init ==
  /\ pc = "start"
  /\ args \in [existing : BOOLEAN, missingmetadata : BOOLEAN]
  /\ existing_data \in IF args.existing THEN PriorTables ELSE {<<>>}
  /\ files_to_process \in FileLists(MaxFiles)
  /\ broken \in {b \in SUBSET (Range(files_to_process) \cap Unrenderable) :
                   Cardinality(b) <= MaxBroken}
  /\ disk \in MainDisks
  /\ rejected = <<>>
  /\ count = 0
  /\ fontinfo = <<>>
  /\ blacklisted = <<>>
  /\ extracted = <<>>
  /\ resolved = <<>>
  /\ applied = {}
  /\ grid_data = <<>>
  /\ output = <<>>
  /\ saves = 0
  /\ NormIdle /\ GfnIdle

Next ==
  \/ Glob
  \/ FilterUsage
  \/ Filter
  \/ NoFilter
  \/ AnalyseSkip
  \/ AnalyseFile
  \/ AnalyseRaise
  \/ AnalyseReturn
  \/ Normalise
  \/ Overlay
  \/ NoOverlay
  \/ Debug

Spec == Init /\ [][Next]_vars

\* a run without --existing on fonts that all render, and the requests the
\* server handles after it
ServerInit ==
  /\ Init
  /\ ~args.existing /\ ~args.missingmetadata
  /\ broken = {}

ServerNext ==
  \/ Glob
  \/ NoFilter
  \/ AnalyseSkip
  \/ AnalyseFile
  \/ AnalyseReturn
  \/ Normalise
  \/ NoOverlay
  \/ Debug
  \/ update

ServerSpec == ServerInit /\ [][ServerNext]_vars

\* ------------------------------------------------- properties of NormSpec
\* the list is in the general case: its smallest and largest value differ
GeneralCase(values) == \E i, j \in 1..Len(values) : values[i] # values[j]

\* v is a largest element of values
IsMaxOf(v, values) ==
  /\ \E i \in 1..Len(values) : values[i] = v
  /\ \A i \in 1..Len(values) : values[i] <= v

\* the integer part of the rational n / Den, stated without division:
\* the integer of the same sign and of the largest magnitude not beyond n/Den
IsIntegerPartOf(t, n) ==
  IF n >= 0 THEN t >= 0 /\ t * Den <= n /\ n < (t + 1) * Den
  ELSE t <= 0 /\ t * Den >= n /\ n > (t - 1) * Den

\* c is t clamped into lo..hi
IsClampOf(c, t, lo, hi) ==
  \/ t < lo /\ c = lo
  \/ t > hi /\ c = hi
  \/ lo <= t /\ t <= hi /\ c = t

\* C6: the list returned by map_to_int_range has the length of its input and
\* every element of it is an integer between target_min and target_max
\* inclusive, in the degenerate and in the general case.
C6_Bounds ==
  nstate = "done" =>
    /\ DOMAIN nresult = 1..Len(nvalues)
    /\ \A i \in 1..Len(nvalues) :
         nresult[i] \in Int /\ ntmin <= nresult[i] /\ nresult[i] <= ntmax

\* a general-case call whose result holds a value strictly inside the range,
\* and one that is clamped from above would be the degenerate case
C6_Witness ==
  /\ nstate = "done"
  /\ GeneralCase(nvalues)
  /\ Len(nvalues) = 3
  /\ \E i \in 1..3 : ntmin < nresult[i] /\ nresult[i] < ntmax

\* C7 as amended: in the general case the output at every position of the
\* largest input is exactly target_max (and at every position of the smallest
\* input target_min); truncation lowers only the values in between.
C7_MaxMapsToTargetMax ==
  (nstate = "done" /\ GeneralCase(nvalues)) =>
    \A i \in 1..Len(nvalues) :
      /\ IsMaxOf(nvalues[i], nvalues) => nresult[i] = ntmax
      /\ (\A j \in 1..Len(nvalues) : nvalues[i] <= nvalues[j])
           => nresult[i] = ntmin

\* a general-case call in which truncation acts on a value in between (its
\* exact image is not an integer) and the largest input is at target_max
C7_Witness ==
  /\ nstate = "done"
  /\ GeneralCase(nvalues)
  /\ ntmax - ntmin > 1
  /\ \E i, j, k \in 1..Len(nvalues) :
       /\ IsMaxOf(nvalues[j], nvalues)
       /\ \A m \in 1..Len(nvalues) : nvalues[k] <= nvalues[m]
       /\ nresult[j] = ntmax
       /\ ((ntmax - ntmin) * (nvalues[i] - nvalues[k]))
            % (nvalues[j] - nvalues[k]) # 0

\* C7 as stated: some general-case input has its largest value mapped to
\* target_max - 1.  Stated over all the inputs of NormSpec.
C7_MaxCanMapBelow ==
  nstate \in {"input", "done"} /\ \E values \in RawLists, r \in TargetRanges :
      /\ GeneralCase(values)
      /\ \E i \in 1..Len(values) :
           /\ IsMaxOf(values[i], values)
           /\ map_to_int_range(values, r[1], r[2])[i] = r[2] - 1

\* C8: when all the values are equal to v, map_to_int_range returns at every
\* position int(v), truncated toward zero, clamped into
\* target_min..target_max, and attempts no division.
C8_Degenerate ==
  (nstate = "done" /\ ~GeneralCase(nvalues)) =>
    /\ nresult # Raised
    /\ DOMAIN nresult = 1..Len(nvalues)
    /\ \A i \in 1..Len(nvalues) :
         \E t \in -(50 + MaxNum)..(50 + MaxNum) :
           /\ IsIntegerPartOf(t, nvalues[i])
           /\ IsClampOf(nresult[i], t, ntmin, ntmax)

\* [50.0, 50.0, 50.0] with the default range gives [10, 10, 10]
C8_Witness ==
  /\ nstate = "done"
  /\ nvalues = <<50 * Den, 50 * Den, 50 * Den>>
  /\ ntmin = 1 /\ ntmax = 10
  /\ nresult = <<10, 10, 10>>

\* C9: map_to_int_range preserves order position by position: where
\* values[i] < values[j], output[i] <= output[j].
C9_Monotone ==
  nstate = "done" =>
    \A i, j \in 1..Len(nvalues) :
      nvalues[i] < nvalues[j] => nresult[i] <= nresult[j]

\* a call on an unsorted list of three different values
C9_Witness ==
  /\ nstate = "done"
  /\ Len(nvalues) = 3
  /\ nvalues[2] < nvalues[3] /\ nvalues[3] < nvalues[1]
  /\ nresult[2] < nresult[3] /\ nresult[3] < nresult[1]

\* -------------------------------------------------- properties of GfnSpec
\* the directory of fontfile holds a METADATA.pb
HasSidecar(fontfile) ==
  MetadataAt(join(dirname(fontfile), METADATA_pb)) # {}

\* what the sidecar source gives for fontfile: "unknown" without a match
SidecarGfn(fontfile) ==
  SidecarSource(fontfile,
                CHOOSE m \in MetadataAt(join(dirname(fontfile), METADATA_pb)) :
                  TRUE).gfn

\* what the naming convention gives for fontfile: "unknown" when it fails
NamingGfn(fontfile) == NamingSource(fontfile).gfn

\* what the name table alone gives, after a sidecar without a match
NameTableAfterSidecar(fontfile) ==
  NameTableSource(TTFont(fontfile), [family |-> ProtoObject, sw |-> Unbound])

OnBlacklist(f) ==
  \E i \in 1..Len(BLACKLIST) :
    \E k \in 1..Len(f) :
      /\ k + Len(BLACKLIST[i]) - 1 <= Len(f)
      /\ \A n \in 1..Len(BLACKLIST[i]) : f[k + n - 1] = BLACKLIST[i][n]

NotOnBlacklist(f) == ~OnBlacklist(f)

\* the files the loop of analyse_fonts has passed, in its order
Passed == SubSeq(SortedStrs(files_to_process), 1, count)

\* analyse_fonts has returned its mapping to main
Returned ==
  pc \in {"exit_blacklisted", "normalise", "overlay", "debug", "exit_debug",
          "serving"}

\* main went on after the test of the mapping at line 487
WentOn == pc \in {"normalise", "overlay", "debug", "exit_debug", "serving"}

\* the run is at or past the debug print: the values are final
Final == pc \in {"debug", "exit_debug", "serving"}

\* C2 as stated: a failure of the extraction on a file that is not excluded
\* aborts that file alone; once the loop is over, every file that is neither
\* excluded nor failing has been analysed and resolved.
C2_BatchContinues ==
  pc \notin {"start", "exit_nofiles", "exit_usage", "filter", "analyse"} =>
    \A f \in Range(files_to_process) :
      (NotOnBlacklist(f) /\ f \notin broken) => f \in Range(resolved)

\* C2 as amended: a failure of the extraction on a file that is not excluded
\* ends the whole run at that file.  The files before it in sorted order have
\* been handled, no file after it is, and no mapping is returned; so a
\* mapping is returned only when no file off the exclusion list fails.
C2_FailureEndsRun ==
  /\ pc = "crashed" =>
       /\ count < Len(files_to_process)
       /\ CurrentFile \in broken
       /\ NotOnBlacklist(CurrentFile)
       /\ resolved = SelectSeq(Passed, NotOnBlacklist)
  /\ Returned =>
       /\ count = Len(files_to_process)
       /\ \A f \in Range(files_to_process) :
            NotOnBlacklist(f) => f \notin broken
       /\ resolved = SelectSeq(Passed, NotOnBlacklist)

\* the run has ended at a failing file, with a file behind it in sorted order
\* that is neither excluded nor failing and has not been analysed
C2_Witness ==
  /\ pc = "crashed"
  /\ \E i \in (count + 2)..Len(files_to_process) :
       LET f == SortedStrs(files_to_process)[i]
       IN  NotOnBlacklist(f) /\ f \notin broken /\ f \notin Range(resolved)

\* C3: a file whose path holds a BLACKLIST entry is never passed to the
\* extraction nor to the resolver; it is appended to the excluded list when
\* the loop reaches it, and no record of the mapping has it as its fontfile.
C3_ExcludedNeverAnalysed ==
  /\ \A f \in FontFiles :
       OnBlacklist(f) =>
         /\ f \notin Range(extracted)
         /\ f \notin Range(resolved)
         /\ \A k \in DOMAIN fontinfo : fontinfo[k].fontfile # f
  /\ pc \notin {"start", "exit_nofiles", "exit_usage", "filter"} =>
       blacklisted = SelectSeq(Passed, OnBlacklist)

\* a returned mapping with a record, from a list that held an excluded file
C3_Witness ==
  /\ Returned
  /\ DOMAIN fontinfo # {}
  /\ \E f \in Range(files_to_process) :
       OnBlacklist(f) /\ f \in Range(blacklisted)

\* C4 as stated: after filter-mode no remaining candidate path contains the
\* family portion, without its blanks, of the identifier of any row of the
\* existing file, adjacent matching files included.
C4_FilterRemovesEveryMatch ==
  "filter" \in applied =>
    \A i \in 1..Len(existing_data) :
      \A j \in 1..Len(files_to_process) :
        ~Contains(WithoutBlanks(BeforeColon(existing_data[i].gfn)),
                  files_to_process[j])

\* filter-mode has removed a matching file and left the matching file that
\* stood right behind it in the list
C4_Witness ==
  /\ "filter" \in applied
  /\ Len(rejected) = 1
  /\ Len(files_to_process) = 1
  /\ \E i \in 1..Len(existing_data) :
       Contains(WithoutBlanks(BeforeColon(existing_data[i].gfn)),
                files_to_process[1])

\* C5 as stated: the run aborts whenever every candidate file was excluded or
\* resolved to "unknown"; so a run that goes on has a key other than
\* "unknown" in its mapping.
C5_AbortWhenAllUnknown ==
  WentOn => \E k \in DOMAIN fontinfo : k # unknown

\* C5 as amended: the run aborts exactly when the mapping is empty, which is
\* when the candidate list is empty after the filter or every file of it is
\* excluded.  A file resolved to "unknown" has a record under the key
\* "unknown", and a mapping with that key alone goes on to normalisation.
C5_AbortOnlyWhenEmpty ==
  /\ pc = "exit_blacklisted" =>
       /\ DOMAIN fontinfo = {}
       /\ \A f \in Range(files_to_process) : OnBlacklist(f)
  /\ WentOn =>
       /\ DOMAIN fontinfo # {}
       /\ \E f \in Range(files_to_process) : NotOnBlacklist(f)
  /\ (Returned /\ pc # "normalise" /\ pc # "exit_blacklisted") =>
       \A k \in DOMAIN fontinfo : fontinfo[k].weight_int \in 1..10

\* the server is started on a mapping whose only key is "unknown", normalised
C5_Witness ==
  /\ pc = "serving"
  /\ DOMAIN fontinfo = {unknown}
  /\ fontinfo[unknown].weight_int \in 1..10

TextBefore(a, b) ==
  \E i \in 1..(Len(b)) :
    /\ i <= Len(a) + 1
    /\ \A n \in 1..(i - 1) : a[n] = b[n]
    /\ i = Len(a) + 1 \/ Ord(a[i]) < Ord(b[i])

\* the data rows of the file as it was last written
DataRows == Tail(output)

\* the row of the file that shows the record under key k as it is now
RowShowing(k) ==
  <<fontinfo[k].gfn, DecimalOf(fontinfo[k].weight_int),
    DecimalOf(fontinfo[k].angle_int), DecimalOf(fontinfo[k].width_int),
    fontinfo[k].usage>>

\* the keys that had a row made for them when the grid was built
Shown == DOMAIN fontinfo \ {unknown}

\* C11 as stated: every time the table is persisted it holds exactly one row
\* per record whose identifier is not "unknown", no row has the identifier
\* "unknown", and the rows are sorted by identifier ascending.
C11_NoUnknownRow ==
  saves > 0 =>
    /\ \A n \in 1..Len(DataRows) : DataRows[n][1] # unknown
    /\ Len(DataRows)
         = Cardinality({k \in DOMAIN fontinfo : fontinfo[k].gfn # unknown})
    /\ \A n, m \in 1..Len(DataRows) :
         n < m => ~TextBefore(DataRows[m][1], DataRows[n][1])

\* C11 as amended: every time the table is persisted it holds the header and
\* exactly one row per record whose identifier was not "unknown" when the
\* grid was built, each with the values the record has now, sorted ascending
\* by the identifier it has now.  As long as no GFN cell has been edited no
\* row has the identifier "unknown" and no two rows have the same identifier;
\* an edited GFN cell is written as typed, "unknown" included.
C11_RowsOfGrid ==
  /\ saves = 0 => output = <<>>
  /\ saves > 0 =>
       /\ output[1] = Header
       /\ Len(DataRows) = Cardinality(Shown)
       /\ Len(grid_data) = Cardinality(Shown)
       /\ \A k \in Shown :
            Cardinality({n \in 1..Len(DataRows) : DataRows[n] = RowShowing(k)})
              = Cardinality({g \in Shown : RowShowing(g) = RowShowing(k)})
       /\ \A n, m \in 1..Len(DataRows) :
            n < m => ~TextBefore(DataRows[m][1], DataRows[n][1])
       /\ (\A k \in DOMAIN fontinfo : fontinfo[k].gfn = k) =>
            \A n, m \in 1..Len(DataRows) :
              /\ DataRows[n][1] # unknown
              /\ n < m => TextBefore(DataRows[n][1], DataRows[m][1])

\* the table has been persisted twice; its one row shows a record whose
\* USAGE and GFN cells were edited, the GFN cell to "unknown", while the
\* record that was resolved to "unknown" has no row
C11_Witness ==
  /\ saves = 2
  /\ unknown \in DOMAIN fontinfo
  /\ Len(DataRows) = 1
  /\ DataRows[1][1] = unknown
  /\ DataRows[1][5] = "body"

\* ------------------------------------------- properties of Spec, continued
\* the identifier the resolver gives for a file on this disk
IdOf(f) == get_gfn(f, TTFont(f))

\* the files the loop of analyse_fonts has handled: analysed or skipped
Handled == Range(resolved) \cup Range(blacklisted)

\* C12: analyse_fonts handles the files in ascending order of their paths,
\* whatever the order they were given in; the mapping has exactly the
\* identifiers of the files analysed so far, and under each identifier the
\* record (fontfile, measurements) of the last of the files in sorted order
\* that resolve to it, so never two records for one identifier.
C12_SortedLastWins ==
  /\ \A n, m \in 1..Len(resolved) :
       n < m => TextBefore(resolved[n], resolved[m])
  /\ \A n, m \in 1..Len(blacklisted) :
       n < m => TextBefore(blacklisted[n], blacklisted[m])
  /\ pc \notin {"start", "exit_nofiles", "exit_usage", "filter"} =>
       /\ Handled \subseteq Range(files_to_process)
       /\ \A f \in Handled : \A g \in Range(files_to_process) \ Handled :
            TextBefore(f, g)
  /\ Returned => Handled = Range(files_to_process)
  /\ DOMAIN fontinfo = {IdOf(f) : f \in Range(resolved)}
  /\ \A k \in DOMAIN fontinfo :
       \E f \in Range(resolved) :
         /\ IdOf(f) = k
         /\ \A g \in Range(resolved) : IdOf(g) = k => ~TextBefore(f, g)
         /\ fontinfo[k].fontfile = f
         /\ fontinfo[k].gfn = k
         /\ fontinfo[k].weight = Measured(f).weight
         /\ fontinfo[k].width = Measured(f).width
         /\ fontinfo[k].angle = Measured(f).angle

\* two files given in descending order resolve to one identifier and measure
\* differently, and the mapping returned holds the record of the one whose
\* path is the greater
C12_Witness ==
  /\ Returned
  /\ Len(files_to_process) = 2
  /\ TextBefore(files_to_process[2], files_to_process[1])
  /\ resolved = <<files_to_process[2], files_to_process[1]>>
  /\ IdOf(files_to_process[1]) = IdOf(files_to_process[2])
  /\ Measured(files_to_process[1]) # Measured(files_to_process[2])
  /\ DOMAIN fontinfo = {IdOf(files_to_process[1])}
  /\ fontinfo[IdOf(files_to_process[1])].fontfile = files_to_process[1]

====
